---- MODULE Spec2Model ----
(***************************************************************************)
(* Block store of src/src/block_store.c: an array of BLOCK_COUNT slots,    *)
(* the first BLOCK_COUNT - 1 of them BLOCK_SIZE-byte buffers, the last one *)
(* the bitmap object that records which slots are occupied.                *)
(*                                                                         *)
(* The source fixes BLOCK_COUNT = BLOCK_SIZE = 256 and size_t is 64 bits   *)
(* wide; the model keeps the same code with the three sizes scaled down so *)
(* that the state space is finite and small.  Every comparison of the code *)
(* is written against the named sizes, never against their values.         *)
(*                                                                         *)
(* bitmap.c is not part of the sources at hand: the bitmap_* operators are *)
(* written from section 4.1 of the specification.                          *)
(***************************************************************************)
EXTENDS Integers, FiniteSets, Sequences, TLC

\* Scaled sizes (256, 256 and 64 in the source and its platform).
BLOCK_COUNT == 3
BLOCK_SIZE == 1
SizeBits == 8

SIZE_MOD == 2 ^ SizeBits
SIZE_MAX == SIZE_MOD - 1

\* size_t arithmetic: unsigned, wraps modulo 2^SizeBits.
SizeAdd(a, b) == (a + b) % SIZE_MOD
SizeSub(a, b) == ((a % SIZE_MOD) - (b % SIZE_MOD) + SIZE_MOD) % SIZE_MOD

\* Byte values a caller's payload is drawn from (all-zero and all-0xFF included).
Byte == {0, 255}
Payloads == [1 .. BLOCK_SIZE -> Byte]

ReservedId == BLOCK_COUNT - 1
UserIds == 0 .. (BLOCK_COUNT - 2)
\* Block ids a caller may pass: every slot, one past the end, and SIZE_MAX.
Ids == (0 .. BLOCK_COUNT) \cup {SIZE_MAX}

Bitmaps == [0 .. (BLOCK_COUNT - 1) -> BOOLEAN]

\* The values of C's bool as block_store_request returns them.
true == 1
false == 0

-----------------------------------------------------------------------------
\* Bitmap (specification section 4.1).

bitmap_create(n) == [i \in 0 .. (n - 1) |-> FALSE]

bitmap_set(bm, i) ==
    IF i \in DOMAIN bm THEN [bm EXCEPT ![i] = TRUE] ELSE bm

bitmap_reset(bm, i) ==
    IF i \in DOMAIN bm THEN [bm EXCEPT ![i] = FALSE] ELSE bm

bitmap_test(bm, i) == i \in DOMAIN bm /\ bm[i]

bitmap_ffz(bm) ==
    IF \E i \in DOMAIN bm : ~bm[i]
    THEN CHOOSE i \in DOMAIN bm : ~bm[i] /\ \A j \in DOMAIN bm : ~bm[j] => i <= j
    ELSE SIZE_MAX

bitmap_total_set(bm) == Cardinality({i \in DOMAIN bm : bm[i]})

-----------------------------------------------------------------------------
\* Block store operations as functions of the bitmap: the value returned and
\* the bitmap left behind.  present is FALSE for a null store pointer.

\* Mutant: create marks slot 0 instead of the last one.
block_store_create_mut_first == bitmap_set(bitmap_create(BLOCK_COUNT), 0)

\* Mutant: create forgets to mark the reserved slot.
block_store_create_mut_unreserved == bitmap_create(BLOCK_COUNT)

\* block_store_create: the bitmap put in the last slot, its own bit set.
block_store_create_bitmap ==
    bitmap_set(bitmap_create(BLOCK_COUNT), BLOCK_COUNT - 1)

\* Mutant: allocate takes the highest free index instead of the lowest.
block_store_allocate_mut_any(present, bm) ==
    IF ~present THEN [ret |-> SIZE_MAX, bitmap |-> bm]
    ELSE IF \A i \in DOMAIN bm : bm[i] THEN [ret |-> SIZE_MAX, bitmap |-> bm]
    ELSE LET block == CHOOSE i \in DOMAIN bm :
                          ~bm[i] /\ \A j \in DOMAIN bm : ~bm[j] => i >= j
         IN [ret |-> block, bitmap |-> bitmap_set(bm, block)]

\* Mutant: allocate without the null check on the store.
block_store_allocate_mut_unchecked(present, bm) ==
    LET block == bitmap_ffz(bm)
    IN IF block = SIZE_MAX
       THEN [ret |-> SIZE_MAX, bitmap |-> bm]
       ELSE [ret |-> block, bitmap |-> bitmap_set(bm, block)]

block_store_allocate(present, bm) ==
    IF ~present THEN [ret |-> SIZE_MAX, bitmap |-> bm]
    ELSE LET block == bitmap_ffz(bm)
         IN IF block = SIZE_MAX
            THEN [ret |-> SIZE_MAX, bitmap |-> bm]
            ELSE [ret |-> block, bitmap |-> bitmap_set(bm, block)]

\* Mutant: request reports success without marking the block.
block_store_request_mut_noset(present, bm, block_id) ==
    IF ~present \/ block_id > BLOCK_COUNT - 1 THEN [ret |-> false, bitmap |-> bm]
    ELSE IF ~bitmap_test(bm, block_id)
         THEN [ret |-> true, bitmap |-> bm]
         ELSE [ret |-> false, bitmap |-> bm]

block_store_request(present, bm, block_id) ==
    IF ~present \/ block_id > BLOCK_COUNT - 1 THEN [ret |-> false, bitmap |-> bm]
    ELSE IF ~bitmap_test(bm, block_id)
         THEN [ret |-> true, bitmap |-> bitmap_set(bm, block_id)]
         ELSE [ret |-> false, bitmap |-> bm]

\* Mutant: release flips the bit instead of clearing it.
block_store_release_mut_toggle(present, bm, block_id) ==
    IF ~present THEN bm
    ELSE IF bitmap_test(bm, block_id) THEN bitmap_reset(bm, block_id)
    ELSE bitmap_set(bm, block_id)

block_store_release(present, bm, block_id) ==
    IF ~present THEN bm ELSE bitmap_reset(bm, block_id)

\* Mutant: get_used_blocks counts the reserved slot too.
block_store_get_used_blocks_mut(present, bm) ==
    IF ~present THEN SIZE_MAX ELSE bitmap_total_set(bm)

block_store_get_used_blocks(present, bm) ==
    IF ~present THEN SIZE_MAX ELSE SizeSub(bitmap_total_set(bm), 1)

block_store_get_free_blocks(present, bm) ==
    IF ~present THEN SIZE_MAX ELSE SizeSub(BLOCK_COUNT, bitmap_total_set(bm))

block_store_get_total_blocks == BLOCK_COUNT - 1

\* The null pointer as a returned store handle.
NULL == 0

block_store_deserialize(filePresent) ==
    IF ~filePresent THEN NULL ELSE NULL

\* Mutant: serialize reports the bytes of a full image as written.
block_store_serialize_mut_image(present, filePresent) ==
    IF ~present \/ ~filePresent THEN 0 ELSE BLOCK_COUNT * BLOCK_SIZE

block_store_serialize(present, filePresent) ==
    IF ~present \/ ~filePresent THEN 0 ELSE 0

\* Mutant: the parameter check also turns block 0 away.
block_store_rw_mut_user(present, block_id, bufPresent) ==
    ~(~present \/ block_id > BLOCK_COUNT - 1 \/ ~bufPresent \/ block_id = 0)

\* The parameter check shared by read and write: TRUE when the call goes on
\* to memcpy.
block_store_rw_checks(present, block_id, bufPresent) ==
    ~(~present \/ block_id > BLOCK_COUNT - 1 \/ ~bufPresent)

-----------------------------------------------------------------------------
VARIABLES
    bitmap,   \* the bitmap object held in slot BLOCK_COUNT - 1
    blocks,   \* contents of the BLOCK_COUNT - 1 malloc'ed buffers
    buffer,   \* contents of the caller's destination buffer (read's argument)
    call,     \* the last call made: arguments, payload written, value returned
    live,     \* whether the store exists (created and not destroyed)
    observed, \* history: whether the observer below is running
    held,     \* history: ids returned by allocate and not released since
    allocated, \* history: the reference set S of ids handed out and not released
    run       \* history: allocate calls made in a row since create

vars == <<bitmap, blocks, buffer, call, live, observed, held, allocated, run>>

\* Values of run: the row of allocate calls was interrupted; not counting.
RunBroken == BLOCK_COUNT
RunOff == BLOCK_COUNT + 1

NoData == <<>>

\* block_store_create: the buffers come from malloc and hold arbitrary bytes.
InitStore ==
    /\ bitmap = block_store_create_bitmap
    /\ blocks \in [UserIds -> Payloads]
    /\ buffer \in Payloads
    /\ call = [op |-> "create", bs |-> TRUE, id |-> 0, buf |-> FALSE,
               file |-> FALSE, data |-> NoData, ret |-> 0]
    /\ live = TRUE
    /\ held = {}
    /\ allocated = {}

Init == InitStore /\ observed = FALSE /\ run = RunOff

InitObserved == InitStore /\ observed = TRUE /\ run = RunOff

InitCounting == InitStore /\ observed = FALSE /\ run = 0

\* The observer: an id enters held when allocate returns it and leaves when
\* release is called with it on the store.
HeldAfter(h, c) ==
    IF c.op = "allocate" /\ c.bs /\ c.ret # SIZE_MAX THEN h \cup {c.ret}
    ELSE IF c.op = "release" /\ c.bs THEN h \ {c.id}
    ELSE IF c.op = "create" THEN {}
    ELSE h

\* The reference model: an id enters S when allocate or request hands it out
\* and leaves when release is called with it.
AllocatedAfter(S, c) ==
    IF c.op = "allocate" /\ c.bs /\ c.ret # SIZE_MAX THEN S \cup {c.ret}
    ELSE IF c.op = "request" /\ c.bs /\ c.ret = true THEN S \cup {c.id}
    ELSE IF c.op = "release" /\ c.bs THEN S \ {c.id}
    ELSE IF c.op = "create" THEN {}
    ELSE S

\* The number of allocate calls made on the store since create, as long as
\* nothing else has been called.
RunAfter(r, c) ==
    IF r = RunOff THEN RunOff
    ELSE IF c.op = "create" THEN 0
    ELSE IF c.op = "allocate" /\ c.bs /\ r < RunBroken THEN r + 1
    ELSE RunBroken

Observe ==
    /\ observed' = observed
    /\ held' = IF observed THEN HeldAfter(held, call') ELSE held
    /\ allocated' = IF observed THEN AllocatedAfter(allocated, call') ELSE allocated
    /\ run' = RunAfter(run, call')

\* A caller passes the store it holds or a null pointer, never a store that
\* has been destroyed.
Usable(present) == present => live

Allocate(present) ==
    LET r == block_store_allocate(present, bitmap)
    IN /\ Usable(present)
       /\ bitmap' = r.bitmap
       /\ call' = [op |-> "allocate", bs |-> present, id |-> 0, buf |-> FALSE,
                   file |-> FALSE, data |-> NoData, ret |-> r.ret]
       /\ UNCHANGED <<blocks, buffer, live>>
       /\ Observe

Request(present, id) ==
    LET r == block_store_request(present, bitmap, id)
    IN /\ Usable(present)
       /\ bitmap' = r.bitmap
       /\ call' = [op |-> "request", bs |-> present, id |-> id, buf |-> FALSE,
                   file |-> FALSE, data |-> NoData, ret |-> r.ret]
       /\ UNCHANGED <<blocks, buffer, live>>
       /\ Observe

Release(present, id) ==
    /\ Usable(present)
    /\ bitmap' = block_store_release(present, bitmap, id)
    /\ call' = [op |-> "release", bs |-> present, id |-> id, buf |-> FALSE,
                file |-> FALSE, data |-> NoData, ret |-> 0]
    /\ UNCHANGED <<blocks, buffer, live>>
    /\ Observe

\* block_store_read: memcpy(buffer, bs[block_id].block, BLOCK_SIZE).  For
\* block_id = BLOCK_COUNT - 1 the source of the copy is the bitmap object, which
\* is not a BLOCK_SIZE-byte buffer: the bytes that arrive are arbitrary.
Read(present, id, bufPresent) ==
    /\ Usable(present)
    /\ IF block_store_rw_checks(present, id, bufPresent)
       THEN /\ IF id \in UserIds
               THEN buffer' = blocks[id]
               ELSE buffer' \in Payloads
            /\ call' = [op |-> "read", bs |-> present, id |-> id,
                        buf |-> bufPresent, file |-> FALSE,
                        data |-> NoData, ret |-> BLOCK_SIZE]
       ELSE /\ buffer' = buffer
            /\ call' = [op |-> "read", bs |-> present, id |-> id,
                        buf |-> bufPresent, file |-> FALSE,
                        data |-> NoData, ret |-> 0]
    /\ UNCHANGED <<bitmap, blocks, live>>
    /\ Observe

\* block_store_write: memcpy(bs[block_id].block, buffer, BLOCK_SIZE), the
\* caller's source buffer holding payload B.  For block_id = BLOCK_COUNT - 1 the
\* destination is the bitmap object: the payload lands on it and the occupancy
\* bits afterwards are arbitrary.
Write(present, id, bufPresent, B) ==
    /\ Usable(present)
    /\ IF block_store_rw_checks(present, id, bufPresent)
       THEN /\ IF id \in UserIds
               THEN /\ blocks' = [blocks EXCEPT ![id] = B]
                    /\ bitmap' = bitmap
               ELSE /\ blocks' = blocks
                    /\ bitmap' \in Bitmaps
            /\ call' = [op |-> "write", bs |-> present, id |-> id,
                        buf |-> bufPresent, file |-> FALSE,
                        data |-> B, ret |-> BLOCK_SIZE]
       ELSE /\ UNCHANGED <<bitmap, blocks>>
            /\ call' = [op |-> "write", bs |-> present, id |-> id,
                        buf |-> bufPresent, file |-> FALSE,
                        data |-> B, ret |-> 0]
    /\ UNCHANGED <<buffer, live>>
    /\ Observe

GetUsedBlocks(present) ==
    /\ Usable(present)
    /\ call' = [op |-> "get_used_blocks", bs |-> present, id |-> 0, buf |-> FALSE,
                file |-> FALSE, data |-> NoData,
                ret |-> block_store_get_used_blocks(present, bitmap)]
    /\ UNCHANGED <<bitmap, blocks, buffer, live>>
    /\ Observe

GetFreeBlocks(present) ==
    /\ Usable(present)
    /\ call' = [op |-> "get_free_blocks", bs |-> present, id |-> 0, buf |-> FALSE,
                file |-> FALSE, data |-> NoData,
                ret |-> block_store_get_free_blocks(present, bitmap)]
    /\ UNCHANGED <<bitmap, blocks, buffer, live>>
    /\ Observe

GetTotalBlocks ==
    /\ call' = [op |-> "get_total_blocks", bs |-> TRUE, id |-> 0, buf |-> FALSE,
                file |-> FALSE, data |-> NoData, ret |-> block_store_get_total_blocks]
    /\ UNCHANGED <<bitmap, blocks, buffer, live>>
    /\ Observe

\* block_store_serialize: a stub, nothing is written.
Serialize(present, filePresent) ==
    /\ Usable(present)
    /\ call' = [op |-> "serialize", bs |-> present, id |-> 0, buf |-> FALSE,
                file |-> filePresent, data |-> NoData,
                ret |-> block_store_serialize(present, filePresent)]
    /\ UNCHANGED <<bitmap, blocks, buffer, live>>
    /\ Observe

\* block_store_deserialize: a stub, no store is made.
Deserialize(filePresent) ==
    /\ call' = [op |-> "deserialize", bs |-> FALSE, id |-> 0, buf |-> FALSE,
                file |-> filePresent, data |-> NoData,
                ret |-> block_store_deserialize(filePresent)]
    /\ UNCHANGED <<bitmap, blocks, buffer, live>>
    /\ Observe

\* block_store_destroy: a null store is left alone; a store is freed, bitmap
\* and blocks with it, and the caller has no store until the next create.
Destroy(present) ==
    /\ Usable(present)
    /\ live' = (live /\ ~present)
    /\ call' = [op |-> "destroy", bs |-> present, id |-> 0, buf |-> FALSE,
                file |-> FALSE, data |-> NoData, ret |-> 0]
    /\ UNCHANGED <<bitmap, blocks, buffer>>
    /\ Observe

\* block_store_create, called when the caller holds no store.
Create ==
    /\ ~live
    /\ live' = TRUE
    /\ bitmap' = block_store_create_bitmap
    /\ blocks' \in [UserIds -> Payloads]
    /\ call' = [op |-> "create", bs |-> TRUE, id |-> 0, buf |-> FALSE,
                file |-> FALSE, data |-> NoData, ret |-> 0]
    /\ UNCHANGED buffer
    /\ Observe

\* Arguments a caller passes: a present store with every id, and the null store.
StoreArgs == {<<TRUE, id>> : id \in Ids} \cup {<<FALSE, 0>>}
\* The same with a buffer: present with every id, and a null buffer.
BufferArgs == {<<a[1], a[2], TRUE>> : a \in StoreArgs} \cup {<<TRUE, 0, FALSE>>}

Next ==
    \/ \E p \in BOOLEAN : Allocate(p)
    \/ \E a \in StoreArgs : Request(a[1], a[2])
    \/ \E a \in StoreArgs : Release(a[1], a[2])
    \/ \E a \in BufferArgs : Read(a[1], a[2], a[3])
    \/ \E a \in BufferArgs, B \in Payloads : Write(a[1], a[2], a[3], B)
    \/ \E p \in BOOLEAN : GetUsedBlocks(p)
    \/ \E p \in BOOLEAN : GetFreeBlocks(p)
    \/ GetTotalBlocks
    \/ \E p \in BOOLEAN, f \in BOOLEAN : Serialize(p, f)
    \/ \E f \in BOOLEAN : Deserialize(f)
    \/ \E p \in BOOLEAN : Destroy(p)
    \/ Create

Spec == Init /\ [][Next]_vars

\* The same program with the observer running.
SpecObserved == InitObserved /\ [][Next]_vars

\* The same program with the row of allocate calls after create counted.
SpecCounting == InitCounting /\ [][Next]_vars

\* A store driven by allocate, request and release calls only.
NextOccupancy ==
    \/ \E p \in BOOLEAN : Allocate(p)
    \/ \E a \in StoreArgs : Request(a[1], a[2])
    \/ \E a \in StoreArgs : Release(a[1], a[2])

SpecOccupancy == Init /\ [][NextOccupancy]_vars

\* The same with the observer running.
SpecOccupancyObserved == InitObserved /\ [][NextOccupancy]_vars

\* A store driven by allocate and request calls only.
NextAllocRequest ==
    \/ \E p \in BOOLEAN : Allocate(p)
    \/ \E a \in StoreArgs : Request(a[1], a[2])

SpecAllocRequest == Init /\ [][NextAllocRequest]_vars

-----------------------------------------------------------------------------
\* What a step's call says about the step.

PresentCall(c, op) == c.op = op /\ c.bs

UserFree(bm) == {i \in UserIds : ~bm[i]}

LowestUserFree(bm) ==
    CHOOSE i \in UserFree(bm) : \A j \in UserFree(bm) : i <= j

AllPayloadBytes(B, v) == \A k \in 1 .. BLOCK_SIZE : B[k] = v

-----------------------------------------------------------------------------
AllocateLowestFree ==
    [][(PresentCall(call', "allocate") /\ UserFree(bitmap) # {})
          => /\ call'.ret = LowestUserFree(bitmap)
             /\ bitmap' = [bitmap EXCEPT ![LowestUserFree(bitmap)] = TRUE]]_vars

\* allocate has just returned a user index although a higher one is free too.
AllocateLowestFreeWitness ==
    /\ PresentCall(call, "allocate")
    /\ call.ret \in UserIds
    /\ \E j \in UserIds : j > call.ret /\ ~bitmap[j]

\* C3: read and write with id = BLOCK_COUNT - 1 or id >= BLOCK_COUNT return 0,
\* leave the bitmap and every block as they were, and read does not fill the
\* caller's buffer.
ReservedReadWriteRejected ==
    [][((PresentCall(call', "read") \/ PresentCall(call', "write"))
            /\ call'.buf /\ call'.id >= BLOCK_COUNT - 1)
          => /\ call'.ret = 0
             /\ bitmap' = bitmap
             /\ blocks' = blocks
             /\ buffer' = buffer]_vars

\* C4: the occupancy bit of the reserved index is set in every state reached by
\* allocate, request and release calls.
ReservedBitAlwaysSet == bitmap[ReservedId]

\* C5: every value allocate returns is SIZE_MAX or a user index whose bit was
\* clear before the call.
AllocateReturnsFreeUserIndex ==
    [][PresentCall(call', "allocate")
          => \/ call'.ret = SIZE_MAX
             \/ call'.ret \in UserIds /\ ~bitmap[call'.ret]]_vars

\* C6: request(x) returns false for every x that allocate returned and that
\* has not been released since.
RequestFailsWhileHeld ==
    [][(PresentCall(call', "request") /\ call'.id \in held)
          => call'.ret = false]_vars

\* C7: with every user block occupied, allocate returns SIZE_MAX and leaves
\* the bitmap and both counts as they were.
ExhaustedAllocateNotFound ==
    [][(PresentCall(call', "allocate") /\ \A i \in UserIds : bitmap[i])
          => /\ call'.ret = SIZE_MAX
             /\ bitmap' = bitmap
             /\ block_store_get_used_blocks(TRUE, bitmap')
                  = block_store_get_used_blocks(TRUE, bitmap)
             /\ block_store_get_free_blocks(TRUE, bitmap')
                  = block_store_get_free_blocks(TRUE, bitmap)]_vars

\* allocate has just reported not-found on a store whose user blocks are all
\* occupied.
ExhaustedAllocateWitness ==
    /\ PresentCall(call, "allocate")
    /\ call.ret = SIZE_MAX
    /\ \A i \in UserIds : bitmap[i]

\* C8: request on an occupied id returns false and changes no occupancy bit,
\* count or block; request on a free user id returns true and sets that id's
\* bit and no other.
RequestContract ==
    [][PresentCall(call', "request")
          => /\ bitmap_test(bitmap, call'.id)
                  => /\ call'.ret = false
                     /\ bitmap' = bitmap
                     /\ blocks' = blocks
                     /\ block_store_get_used_blocks(TRUE, bitmap')
                          = block_store_get_used_blocks(TRUE, bitmap)
                     /\ block_store_get_free_blocks(TRUE, bitmap')
                          = block_store_get_free_blocks(TRUE, bitmap)
             /\ (call'.id \in UserIds /\ ~bitmap[call'.id])
                  => /\ call'.ret = true
                     /\ bitmap' = [bitmap EXCEPT ![call'.id] = TRUE]]_vars

\* A request for an occupied user block has just been turned away.
RequestConflictWitness ==
    /\ PresentCall(call, "request")
    /\ call.id \in UserIds
    /\ call.ret = false
    /\ bitmap[call.id]

\* C9: request with id = BLOCK_COUNT - 1 or id >= BLOCK_COUNT returns false and
\* changes nothing.
RequestRejectsReserved ==
    [][(PresentCall(call', "request") /\ call'.id >= BLOCK_COUNT - 1)
          => /\ call'.ret = false
             /\ bitmap' = bitmap
             /\ blocks' = blocks]_vars

\* C10: write(id, B) on a user id returns BLOCK_SIZE, and a read of the same id
\* right after it returns BLOCK_SIZE and leaves B in the caller's buffer,
\* whether the block is free or occupied.
WriteReadRoundTrip ==
    [][/\ (PresentCall(call', "write") /\ call'.buf /\ call'.id \in UserIds)
            => call'.ret = BLOCK_SIZE
       /\ (/\ PresentCall(call, "write") /\ call.buf /\ call.id \in UserIds
           /\ PresentCall(call', "read") /\ call'.buf /\ call'.id = call.id)
            => /\ call'.ret = BLOCK_SIZE
               /\ buffer' = call.data]_vars

\* A read has just brought back an all-0xFF payload from a free user block.
WriteReadRoundTripWitness ==
    /\ PresentCall(call, "read")
    /\ call.buf
    /\ call.id \in UserIds
    /\ call.ret = BLOCK_SIZE
    /\ ~bitmap[call.id]
    /\ buffer = blocks[call.id]
    /\ AllPayloadBytes(buffer, 255)

\* The counts a caller would be given in the current state.
Used(bm) == block_store_get_used_blocks(TRUE, bm)
Free(bm) == block_store_get_free_blocks(TRUE, bm)

StoreUntouched ==
    /\ bitmap' = bitmap
    /\ blocks' = blocks
    /\ live' = live

-----------------------------------------------------------------------------
\* C11: release of a user id leaves that block free and every other bit and
\* every block as they were; releasing it again, or releasing an id that is
\* already free, changes nothing.
ReleaseIdempotent ==
    [][/\ (PresentCall(call', "release") /\ call'.id \in UserIds)
            => /\ ~bitmap'[call'.id]
               /\ bitmap' = [bitmap EXCEPT ![call'.id] = FALSE]
               /\ blocks' = blocks
               /\ block_store_release(TRUE, bitmap', call'.id) = bitmap'
               /\ ~bitmap[call'.id] => bitmap' = bitmap
       /\ (/\ PresentCall(call, "release") /\ call.id \in UserIds
           /\ PresentCall(call', "release") /\ call'.id = call.id)
            => bitmap' = bitmap /\ blocks' = blocks]_vars

\* A user block has just been released while another one stays occupied.
ReleaseIdempotentWitness ==
    /\ PresentCall(call, "release")
    /\ call.id \in UserIds
    /\ ~bitmap[call.id]
    /\ \E j \in UserIds : bitmap[j]

\* C12: beside the reference set S, bit i is set iff i is in S for every user
\* index i, get_used_blocks is |S| and get_free_blocks is BLOCK_COUNT - 1 - |S|.
OccupancyTracksReference ==
    /\ \A i \in UserIds : bitmap[i] <=> i \in allocated
    /\ Used(bitmap) = Cardinality(allocated)
    /\ Free(bitmap) = (BLOCK_COUNT - 1) - Cardinality(allocated)

\* C13: get_used_blocks and get_free_blocks of a present store are both within
\* 0 .. BLOCK_COUNT - 1.
CountsInRange ==
    /\ Used(bitmap) \in 0 .. (BLOCK_COUNT - 1)
    /\ Free(bitmap) \in 0 .. (BLOCK_COUNT - 1)

\* C14: with a null store every operation leaves everything as it was and
\* returns its sentinel (SIZE_MAX for allocate and the two counts, false for
\* request, 0 for read and write); read and write with a null buffer return 0
\* and copy nothing.
NullArgumentsRejected ==
    [][/\ (~call'.bs /\ call'.op \in {"allocate", "get_used_blocks",
                                      "get_free_blocks"})
            => StoreUntouched /\ buffer' = buffer /\ call'.ret = SIZE_MAX
       /\ (~call'.bs /\ call'.op = "request")
            => StoreUntouched /\ buffer' = buffer /\ call'.ret = false
       /\ (~call'.bs /\ call'.op \in {"release", "destroy"})
            => StoreUntouched /\ buffer' = buffer
       /\ ((~call'.bs \/ ~call'.buf) /\ call'.op \in {"read", "write"})
            => StoreUntouched /\ buffer' = buffer /\ call'.ret = 0]_vars

\* allocate on a null store has just returned SIZE_MAX although the caller's
\* store has a free user block and an occupied one.
NullArgumentsWitness ==
    /\ call.op = "allocate"
    /\ ~call.bs
    /\ call.ret = SIZE_MAX
    /\ live
    /\ \E i \in UserIds : ~bitmap[i]
    /\ \E j \in UserIds : bitmap[j]

\* C15: right after create only the reserved bit is set, get_used_blocks is 0
\* and get_free_blocks is BLOCK_COUNT - 1, and the k-th allocate call in a row
\* after create returns k - 1, for k up to BLOCK_COUNT - 1.
FreshStoreAllocatesInOrder ==
    /\ [](call.op = "create"
            => /\ bitmap = [i \in 0 .. (BLOCK_COUNT - 1) |-> i = ReservedId]
               /\ Used(bitmap) = 0
               /\ Free(bitmap) = BLOCK_COUNT - 1)
    /\ [][(PresentCall(call', "allocate") /\ run \in UserIds)
             => call'.ret = run]_vars

\* BLOCK_COUNT - 1 allocate calls in a row after create have gone through.
FreshStoreWitness ==
    /\ PresentCall(call, "allocate")
    /\ run = BLOCK_COUNT - 1
    /\ call.ret = BLOCK_COUNT - 2

\* C16: read and write change no occupancy bit; allocate, request and release
\* change no block's contents; write(id, B) changes no block other than id.
DataOccupancyOrthogonal ==
    [][/\ (PresentCall(call', "read") \/ PresentCall(call', "write"))
            => /\ bitmap' = bitmap
               /\ Used(bitmap') = Used(bitmap)
               /\ Free(bitmap') = Free(bitmap)
       /\ (PresentCall(call', "allocate") \/ PresentCall(call', "request")
              \/ PresentCall(call', "release"))
            => blocks' = blocks
       /\ PresentCall(call', "write")
            => \A j \in UserIds : j # call'.id => blocks'[j] = blocks[j]]_vars

\* C17: a successful allocate or request changes the occupancy of exactly one
\* user index (used + 1, free - 1); release of an occupied user id changes that
\* id's bit only (used - 1, free + 1); request(x) right after release(x) of a
\* user id returns true.
OccupancyTogglesIndependently ==
    [][/\ (\/ PresentCall(call', "allocate") /\ call'.ret # SIZE_MAX
           \/ PresentCall(call', "request") /\ call'.ret = true)
            => /\ \E i \in UserIds :
                     ~bitmap[i] /\ bitmap' = [bitmap EXCEPT ![i] = TRUE]
               /\ Used(bitmap') = SizeAdd(Used(bitmap), 1)
               /\ Free(bitmap') = SizeSub(Free(bitmap), 1)
       /\ (PresentCall(call', "release") /\ call'.id \in UserIds
              /\ bitmap[call'.id])
            => /\ bitmap' = [bitmap EXCEPT ![call'.id] = FALSE]
               /\ Used(bitmap') = SizeSub(Used(bitmap), 1)
               /\ Free(bitmap') = SizeAdd(Free(bitmap), 1)
       /\ (/\ PresentCall(call, "release") /\ call.id \in UserIds
           /\ PresentCall(call', "request") /\ call'.id = call.id)
            => call'.ret = true]_vars

\* C18: serialize returns 0 and deserialize returns no store, for every store
\* state and filename, and neither changes a bit or a block of the store.
PersistenceStubsInert ==
    [][/\ call'.op = "serialize"
            => call'.ret = 0 /\ StoreUntouched /\ buffer' = buffer
       /\ call'.op = "deserialize"
            => call'.ret = NULL /\ StoreUntouched /\ buffer' = buffer]_vars

\* serialize has just been called with a filename on a store that has an
\* occupied user block.
PersistenceStubsWitness ==
    /\ PresentCall(call, "serialize")
    /\ call.file
    /\ call.ret = 0
    /\ \E j \in UserIds : bitmap[j]

====
